---- MODULE Spec2Model ----
(***************************************************************************)
(* The four MCP tool handlers of function_app.py (hello_mcp, get_weather,  *)
(* search_products, get_order_status) over the three mock datasets.        *)
(*                                                                         *)
(* Encoding.  A Python str is a sequence of one-character strings, so that *)
(* strip, lower, upper, title, the substring test and int() are computed.  *)
(* String literals of the source that are only stored and returned are     *)
(* kept as TLA+ strings.  A JSON value is a record [t, n, s]: its type tag,*)
(* its number (a float's value in tenths) and its characters.  A JSON      *)
(* object is a non-empty sequence of levels: level 1 holds the object's    *)
(* own keys, and when its "arguments" key holds an object, that object is  *)
(* the rest of the sequence.  Floats of the results are kept exactly:      *)
(* temperature_f and rating in tenths, price_usd in cents.                 *)
(***************************************************************************)
EXTENDS Integers, Sequences, FiniteSets, TLC

\* Bounds of the enumerated inputs.
MaxLen == 3
MaxPad == 1
MaxRequested == 7

----------------------------------------------------------------------------
\* Python str operations.

UpperLetters ==
    <<"A", "B", "C", "D", "E", "F", "G", "H", "I", "J", "K", "L", "M",
      "N", "O", "P", "Q", "R", "S", "T", "U", "V", "W", "X", "Y", "Z">>

LowerLetters ==
    <<"a", "b", "c", "d", "e", "f", "g", "h", "i", "j", "k", "l", "m",
      "n", "o", "p", "q", "r", "s", "t", "u", "v", "w", "x", "y", "z">>

Digits == <<"0", "1", "2", "3", "4", "5", "6", "7", "8", "9">>

Whitespace == {" ", "\t", "\n", "\r"}

Range(s) == {s[i] : i \in 1..Len(s)}

IndexOf(c, s) == CHOOSE i \in 1..Len(s) : s[i] = c

\* Each upper-case letter's lower-case letter, and the converse.
ToLower == [c \in Range(UpperLetters) |-> LowerLetters[IndexOf(c, UpperLetters)]]

ToUpper == [c \in Range(LowerLetters) |-> UpperLetters[IndexOf(c, LowerLetters)]]

Letters == DOMAIN ToLower \cup DOMAIN ToUpper

LowerChar(c) == IF c \in DOMAIN ToLower THEN ToLower[c] ELSE c

UpperChar(c) == IF c \in DOMAIN ToUpper THEN ToUpper[c] ELSE c

\* The function f on 1..n as a sequence value.
AsSeq(f, n) == SubSeq(f, 1, n)

IsLetter(c) == c \in Letters

\* str.lower()
Lower(s) == AsSeq([i \in 1..Len(s) |-> LowerChar(s[i])], Len(s))

\* str.upper()
Upper(s) == AsSeq([i \in 1..Len(s) |-> UpperChar(s[i])], Len(s))

\* str.title(): a letter that follows a letter is lower-cased, any other
\* letter is upper-cased, other characters are kept.
Title(s) ==
    AsSeq([i \in 1..Len(s) |->
              IF ~IsLetter(s[i]) THEN s[i]
              ELSE IF i > 1 /\ IsLetter(s[i - 1]) THEN LowerChar(s[i])
              ELSE UpperChar(s[i])],
          Len(s))

SetMin(S) == CHOOSE x \in S : \A y \in S : x <= y

SetMax(S) == CHOOSE x \in S : \A y \in S : x >= y

\* str.strip()
Strip(s) ==
    LET kept == {i \in 1..Len(s) : s[i] \notin Whitespace}
    IN  IF kept = {} THEN <<>> ELSE SubSeq(s, SetMin(kept), SetMax(kept))

\* needle in hay
Contains(hay, needle) ==
    \E i \in 0..(Len(hay) - Len(needle)) : SubSeq(hay, i + 1, i + Len(needle)) = needle

\* s[:n]
PySlice(s, n) ==
    IF n >= 0 THEN SubSeq(s, 1, IF n < Len(s) THEN n ELSE Len(s))
    ELSE SubSeq(s, 1, IF Len(s) + n > 0 THEN Len(s) + n ELSE 0)

\* min(a, b)
PyMin(a, b) == IF b < a THEN b ELSE a

----------------------------------------------------------------------------
\* JSON values as json.loads produces them.

Val(t, n, s) == [t |-> t, n |-> n, s |-> s]

Absent == Val("absent", 0, <<>>)

JNull == Val("null", 0, <<>>)

JStr(s) == Val("str", 0, s)

JInt(n) == Val("int", n, <<>>)

\* A finite float, its value in tenths.
JFloat(tenths) == Val("float", tenths, <<>>)

\* json.loads reads 1e999 and Infinity as float('inf'), NaN as float('nan').
JInf == Val("inf", 0, <<>>)

JNaN == Val("nan", 0, <<>>)

JBool(b) == Val("bool", IF b THEN 1 ELSE 0, <<>>)

JList == Val("list", 0, <<>>)

JDict == Val("dict", 0, <<>>)

\* Results of an evaluation that may raise.
Ok(result) == [kind |-> "ok", exc |-> "", result |-> result]

\* Nothing is returned.
NoResult == [none |-> TRUE]

Raise(exc) == [kind |-> "error", exc |-> exc, result |-> NoResult]

\* The digits of an int literal: digits with single underscores between them.
IsIntLiteral(s) ==
    /\ Len(s) > 0
    /\ \A i \in 1..Len(s) : s[i] \in Range(Digits) \cup {"_"}
    /\ s[1] # "_"
    /\ s[Len(s)] # "_"
    /\ \A i \in 1..(Len(s) - 1) : ~(s[i] = "_" /\ s[i + 1] = "_")

RECURSIVE DigitsValue(_)
DigitsValue(s) ==
    IF s = <<>> THEN 0
    ELSE IF s[Len(s)] = "_" THEN DigitsValue(SubSeq(s, 1, Len(s) - 1))
    ELSE 10 * DigitsValue(SubSeq(s, 1, Len(s) - 1)) + (IndexOf(s[Len(s)], Digits) - 1)

\* int(str): surrounding whitespace, an optional sign, an int literal.
IntOfStr(s) ==
    LET t == Strip(s)
        signed == Len(t) > 0 /\ t[1] \in {"+", "-"}
        body == IF signed THEN Tail(t) ELSE t
    IN  IF ~IsIntLiteral(body) THEN Raise("ValueError")
        ELSE IF signed /\ t[1] = "-" THEN Ok(0 - DigitsValue(body))
        ELSE Ok(DigitsValue(body))

\* int(float) truncates toward zero.
Trunc(tenths) == IF tenths >= 0 THEN tenths \div 10 ELSE 0 - ((0 - tenths) \div 10)

\* int(v)
PyInt(v) ==
    CASE v.t \in {"int", "bool"} -> Ok(v.n)
      [] v.t = "float" -> Ok(Trunc(v.n))
      [] v.t = "inf" -> Raise("OverflowError")
      [] v.t = "nan" -> Raise("ValueError")
      [] v.t = "str" -> IntOfStr(v.s)
      [] OTHER -> Raise("TypeError")

\* One level of a JSON object: the keys the handlers read.
Level(city, query, max_results, order_id, arguments) ==
    [city |-> city, query |-> query, max_results |-> max_results,
     order_id |-> order_id, arguments |-> arguments]

\* obj.get(key, default)
PyGet(obj, key, default) ==
    IF obj[1][key].t = "absent" THEN default ELSE obj[1][key]

\* content itself, whatever it holds under "arguments".
ArgumentsTopLevelOnly(content) == [isObj |-> TRUE, obj |-> content, val |-> Absent]

\* The value under "arguments" only when it is an object, else content.
ArgumentsIfObject(content) ==
    IF content[1].arguments.t = "dict"
    THEN [isObj |-> TRUE, obj |-> Tail(content), val |-> Absent]
    ELSE [isObj |-> TRUE, obj |-> content, val |-> Absent]

\* content.get("arguments", content): the value under "arguments" whenever
\* the key is present, whatever its type, else content itself.
Arguments(content) ==
    LET a == content[1].arguments
    IN  IF a.t = "absent" THEN [isObj |-> TRUE, obj |-> content, val |-> Absent]
        ELSE IF a.t = "dict"
             THEN [isObj |-> TRUE, obj |-> Tail(content), val |-> Absent]
        ELSE [isObj |-> FALSE, obj |-> <<>>, val |-> a]

----------------------------------------------------------------------------
\* The mock datasets.

S(x) == [isNone |-> FALSE, s |-> x]

None == [isNone |-> TRUE, s |-> ""]

MockWeather ==
    (<<"l", "o", "n", "d", "o", "n">> :> [temperature_c |-> 12, condition |-> "Cloudy", humidity_pct |-> 78, wind_kmh |-> 18]) @@
    (<<"t", "o", "k", "y", "o">> :> [temperature_c |-> 22, condition |-> "Sunny", humidity_pct |-> 55, wind_kmh |-> 10]) @@
    (<<"n", "e", "w", " ", "y", "o", "r", "k">> :> [temperature_c |-> 8, condition |-> "Rainy", humidity_pct |-> 82, wind_kmh |-> 25]) @@
    (<<"s", "y", "d", "n", "e", "y">> :> [temperature_c |-> 28, condition |-> "Sunny", humidity_pct |-> 45, wind_kmh |-> 14]) @@
    (<<"b", "e", "r", "l", "i", "n">> :> [temperature_c |-> 5, condition |-> "Snowy", humidity_pct |-> 90, wind_kmh |-> 20]) @@
    (<<"s", "e", "a", "t", "t", "l", "e">> :> [temperature_c |-> 10, condition |-> "Drizzle", humidity_pct |-> 85, wind_kmh |-> 12]) @@
    (<<"p", "a", "r", "i", "s">> :> [temperature_c |-> 14, condition |-> "Partly Cloudy", humidity_pct |-> 65, wind_kmh |-> 15]) @@
    (<<"d", "u", "b", "a", "i">> :> [temperature_c |-> 38, condition |-> "Sunny", humidity_pct |-> 30, wind_kmh |-> 8])

MockProducts == <<
    [id |-> "P001", name |-> <<"W", "i", "r", "e", "l", "e", "s", "s", " ", "N", "o", "i", "s", "e", "-", "C", "a", "n", "c", "e", "l", "l", "i", "n", "g", " ", "H", "e", "a", "d", "p", "h", "o", "n", "e", "s">>,
     category |-> <<"E", "l", "e", "c", "t", "r", "o", "n", "i", "c", "s">>, price_usd |-> 14999, rating |-> 47, in_stock |-> TRUE],
    [id |-> "P002", name |-> <<"E", "r", "g", "o", "n", "o", "m", "i", "c", " ", "M", "e", "c", "h", "a", "n", "i", "c", "a", "l", " ", "K", "e", "y", "b", "o", "a", "r", "d">>,
     category |-> <<"E", "l", "e", "c", "t", "r", "o", "n", "i", "c", "s">>, price_usd |-> 8999, rating |-> 45, in_stock |-> TRUE],
    [id |-> "P003", name |-> <<"U", "S", "B", "-", "C", " ", "4", "-", "P", "o", "r", "t", " ", "H", "u", "b">>,
     category |-> <<"E", "l", "e", "c", "t", "r", "o", "n", "i", "c", "s">>, price_usd |-> 2499, rating |-> 43, in_stock |-> TRUE],
    [id |-> "P004", name |-> <<"S", "t", "a", "n", "d", "i", "n", "g", " ", "D", "e", "s", "k", " ", "C", "o", "n", "v", "e", "r", "t", "e", "r">>,
     category |-> <<"F", "u", "r", "n", "i", "t", "u", "r", "e">>, price_usd |-> 19900, rating |-> 46, in_stock |-> FALSE],
    [id |-> "P005", name |-> <<"L", "a", "p", "t", "o", "p", " ", "S", "t", "a", "n", "d", " ", "w", "i", "t", "h", " ", "C", "o", "o", "l", "i", "n", "g", " ", "F", "a", "n">>,
     category |-> <<"E", "l", "e", "c", "t", "r", "o", "n", "i", "c", "s">>, price_usd |-> 3999, rating |-> 42, in_stock |-> TRUE],
    [id |-> "P006", name |-> <<"2", "7", "-", "i", "n", "c", "h", " ", "4", "K", " ", "M", "o", "n", "i", "t", "o", "r">>,
     category |-> <<"E", "l", "e", "c", "t", "r", "o", "n", "i", "c", "s">>, price_usd |-> 44900, rating |-> 48, in_stock |-> TRUE],
    [id |-> "P007", name |-> <<"M", "e", "s", "h", " ", "O", "f", "f", "i", "c", "e", " ", "C", "h", "a", "i", "r">>,
     category |-> <<"F", "u", "r", "n", "i", "t", "u", "r", "e">>, price_usd |-> 29900, rating |-> 44, in_stock |-> TRUE],
    [id |-> "P008", name |-> <<"P", "o", "r", "t", "a", "b", "l", "e", " ", "P", "h", "o", "n", "e", " ", "C", "h", "a", "r", "g", "e", "r", " ", "2", "0", "0", "0", "0", "m", "A", "h">>,
     category |-> <<"E", "l", "e", "c", "t", "r", "o", "n", "i", "c", "s">>, price_usd |-> 3499, rating |-> 41, in_stock |-> FALSE],
    [id |-> "P009", name |-> <<"S", "m", "a", "r", "t", " ", "L", "E", "D", " ", "D", "e", "s", "k", " ", "L", "a", "m", "p">>,
     category |-> <<"L", "i", "g", "h", "t", "i", "n", "g">>, price_usd |-> 4999, rating |-> 46, in_stock |-> TRUE],
    [id |-> "P010", name |-> <<"2", "m", " ", "B", "r", "a", "i", "d", "e", "d", " ", "U", "S", "B", "-", "C", " ", "C", "a", "b", "l", "e", " ", "(", "3", "-", "p", "a", "c", "k", ")">>,
     category |-> <<"E", "l", "e", "c", "t", "r", "o", "n", "i", "c", "s">>, price_usd |-> 1499, rating |-> 40, in_stock |-> TRUE]
    >>

MockOrders ==
    (<<"O", "R", "D", "-", "1", "0", "0", "1">> :>
      [status |-> S("Delivered"), placed |-> S("2026-02-10"), estimated_delivery |-> S("2026-02-14"),
       delivered |-> S("2026-02-13"), carrier |-> S("FedEx"), tracking |-> S("FX123456789")]) @@
    (<<"O", "R", "D", "-", "1", "0", "0", "2">> :>
      [status |-> S("In Transit"), placed |-> S("2026-02-15"), estimated_delivery |-> S("2026-02-20"),
       delivered |-> None, carrier |-> S("UPS"), tracking |-> S("1Z9999W99999999999")]) @@
    (<<"O", "R", "D", "-", "1", "0", "0", "3">> :>
      [status |-> S("Processing"), placed |-> S("2026-02-18"), estimated_delivery |-> S("2026-02-24"),
       delivered |-> None, carrier |-> None, tracking |-> None]) @@
    (<<"O", "R", "D", "-", "1", "0", "0", "4">> :>
      [status |-> S("Shipped"), placed |-> S("2026-02-17"), estimated_delivery |-> S("2026-02-22"),
       delivered |-> None, carrier |-> S("USPS"), tracking |-> S("9400111899223445401090")]) @@
    (<<"O", "R", "D", "-", "1", "0", "0", "5">> :>
      [status |-> S("Cancelled"), placed |-> S("2026-02-12"), estimated_delivery |-> None,
       delivered |-> None, carrier |-> None, tracking |-> None])

----------------------------------------------------------------------------
\* The handlers, as functions of the trigger context and the dataset read.

\* A trigger context: text that is not JSON, a JSON value that is no object,
\* or a JSON object.
InvalidJson == [form |-> "invalid", val |-> Absent, obj |-> <<>>]

JsonValue(v) == [form |-> "value", val |-> v, obj |-> <<>>]

JsonObject(o) == [form |-> "object", val |-> Absent, obj |-> o]

\* json.loads(context), then content.get("arguments", content), then the .get
\* on what that returned: only a dict has .get.
ArgsOf(context) ==
    IF context.form = "invalid" THEN Raise("JSONDecodeError")
    ELSE IF context.form # "object" THEN Raise("AttributeError")
    ELSE LET a == Arguments(context.obj)
         IN  IF a.isObj THEN Ok(a.obj) ELSE Raise("AttributeError")

\* round(num / den), in tenths.
RoundUnits(num, den) == 10 * ((2 * num + den) \div (2 * den))

\* round(num / den, 1), in tenths.
RoundTenths(num, den) == (20 * num + den) \div (2 * den)

Unknown == <<"U", "n", "k", "n", "o", "w", "n">>

\* get_weather once the argument mapping is known.  The dash of the default
\* source text is an em dash in the code, written "-" here.
WeatherResult(args, weather) ==
    LET v == PyGet(args, "city", JStr(<<>>))
    IN  IF v.t # "str" THEN Raise("AttributeError")
        ELSE LET city == Lower(Strip(v.s))
             IN  IF city \in DOMAIN weather
                 THEN Ok([city |-> Title(city),
                          temperature_c |-> weather[city].temperature_c,
                          temperature_f |->
                              RoundTenths(weather[city].temperature_c * 9 + 32 * 5, 5),
                          condition |-> weather[city].condition,
                          humidity_pct |-> weather[city].humidity_pct,
                          wind_kmh |-> weather[city].wind_kmh,
                          source |-> "mock data"])
                 ELSE Ok([city |-> IF Title(city) = <<>> THEN Unknown ELSE Title(city),
                          temperature_c |-> 20,
                          temperature_f |-> 680,
                          condition |-> "Clear",
                          humidity_pct |-> 60,
                          wind_kmh |-> 10,
                          source |-> "mock data (city not in database - returning default)"])

get_weather(context, weather) ==
    LET a == ArgsOf(context)
    IN  IF a.kind = "error" THEN a ELSE WeatherResult(a.result, weather)

\* The try/except around min(int(args.get("max_results", 3)), 5).
MaxResults(args) ==
    LET n == PyInt(PyGet(args, "max_results", JInt(3)))
    IN  IF n.kind = "ok" THEN Ok(PyMin(n.result, 5))
        ELSE IF n.exc \in {"ValueError", "TypeError"} THEN Ok(3)
        ELSE n

Matches(query, products) ==
    SelectSeq(products,
              LAMBDA p : Contains(Lower(p.name), query) \/ Contains(Lower(p.category), query))

\* search_products once the argument mapping is known.
SearchResult(args, products) ==
    LET v == PyGet(args, "query", JStr(<<>>))
    IN  IF v.t # "str" THEN Raise("AttributeError")
        ELSE LET query == Lower(Strip(v.s))
                 m == MaxResults(args)
             IN  IF m.kind = "error" THEN m
                 ELSE LET max_results == m.result
                          found == Matches(query, products)
                          matches == IF found = <<>> THEN PySlice(products, max_results)
                                     ELSE found
                      IN  Ok([query |-> query,
                              total_matches |-> Len(matches),
                              returned |-> PyMin(Len(matches), max_results),
                              products |-> PySlice(matches, max_results),
                              source |-> "mock data"])

search_products(context, products) ==
    LET a == ArgsOf(context)
    IN  IF a.kind = "error" THEN a ELSE SearchResult(a.result, products)

\* get_order_status looking the id up as typed, without .upper().
OrderResultAsTyped(args, orders) ==
    LET v == PyGet(args, "order_id", JStr(<<>>))
    IN  IF v.t # "str" THEN Raise("AttributeError")
        ELSE LET order_id == Strip(v.s)
             IN  IF order_id \in DOMAIN orders
                 THEN Ok(("source" :> S("mock data")) @@ orders[order_id]
                            @@ ("order_id" :> S(order_id)))
                 ELSE Ok([order_id |-> S(order_id),
                          status |-> S("Not Found"),
                          message |-> <<"No order found with ID '", order_id,
                                        "'. Valid examples: ORD-1001 through ORD-1005.">>,
                          source |-> S("mock data")])

\* get_order_status once the argument mapping is known.
OrderResult(args, orders) ==
    LET v == PyGet(args, "order_id", JStr(<<>>))
    IN  IF v.t # "str" THEN Raise("AttributeError")
        ELSE LET order_id == Upper(Strip(v.s))
             IN  IF order_id \in DOMAIN orders
                 THEN Ok(("source" :> S("mock data")) @@ orders[order_id]
                            @@ ("order_id" :> S(order_id)))
                 ELSE Ok([order_id |-> S(order_id),
                          status |-> S("Not Found"),
                          message |-> <<"No order found with ID '", order_id,
                                        "'. Valid examples: ORD-1001 through ORD-1005.">>,
                          source |-> S("mock data")])

get_order_status(context, orders) ==
    LET a == ArgsOf(context)
    IN  IF a.kind = "error" THEN a ELSE OrderResult(a.result, orders)

\* hello_mcp never reads its context; its result is plain text, not JSON.
hello_mcp(context) ==
    Ok([text |-> "Hello from the sample MCP server running on Azure Functions!"])

----------------------------------------------------------------------------
\* The requests enumerated.

MaxDepth == 3

\* Invocations followed in one run of the process.
MaxCalls == 2

\* Every string over alphabet of length at most n.
Strings(alphabet, n) == UNION {{AsSeq(f, k) : f \in [1..k -> alphabet]} : k \in 0..n}

LeftPads == Strings({" "}, MaxPad)

RightPads == Strings({"\t"}, MaxPad)

\* A seed as sent, upper-cased, lower-cased or title-cased, between paddings.
Spellings(seeds) ==
    {l \o w \o r : l \in LeftPads, r \in RightPads,
                   w \in UNION {{x, Upper(x), Lower(x), Title(x)} : x \in seeds}}

ShortStrings == Strings({"u", "s", "B", " "}, MaxLen)

Atlantis == <<"a", "t", "l", "a", "n", "t", "i", "s">>

CityStrings ==
    Spellings(DOMAIN MockWeather \cup {Atlantis, <<"o", "'", "n", "e", "i", "l">>, <<"n", "e", "w", " ", " ", "y", "o", "r", "k">>})
        \cup ShortStrings

Ord9999 == <<"O", "R", "D", "-", "9", "9", "9", "9">>

OrderStrings ==
    Spellings(DOMAIN MockOrders \cup {Ord9999, <<"O", "R", "D", "-", "1">>, <<"O", "R", "D", "-", "1", "0", "0", "6">>})
        \cup ShortStrings

NoMatch == <<"z", "z", "z", "z", "n", "o", "m", "a", "t", "c", "h">>

QuerySeeds ==
    {NoMatch, <<"u", "s", "b">>, <<"d", "e", "s", "k">>, <<"e", "l", "e", "c", "t", "r", "o", "n", "i", "c", "s">>, <<"f", "u", "r", "n", "i", "t", "u", "r", "e">>, <<"4", "k">>, <<"l", "a", "m", "p">>}

QueryStrings == Spellings(QuerySeeds) \cup ShortStrings

RECURSIVE NatStr(_)
NatStr(n) ==
    IF n < 10 THEN <<Digits[n + 1]>> ELSE NatStr(n \div 10) \o <<Digits[(n % 10) + 1]>>

IntStr(n) == IF n < 0 THEN <<"-">> \o NatStr(0 - n) ELSE NatStr(n)

Requested == (0 - MaxRequested)..MaxRequested

\* max_results as a client may send it.
MaxResultsInts == {Absent} \cup {JInt(n) : n \in Requested}

MaxResultsCore ==
    MaxResultsInts
        \cup {JNull, JList, JDict, JBool(TRUE), JBool(FALSE), JInf, JNaN,
              JFloat(35), JFloat(-15), JFloat(69)}
        \cup {JStr(IntStr(n)) : n \in Requested}
        \cup {JStr(x) : x \in {<<>>, <<"a", "b", "c">>, <<"3", ".", "5">>, <<"+", "4">>, <<"1", "_", "0">>, <<"i", "n", "f">>, <<"-">>}}

MaxResultsValues ==
    MaxResultsCore
        \cup {JStr(l \o IntStr(n) \o r) : l \in LeftPads, r \in RightPads, n \in Requested}

NoArgs == Level(Absent, Absent, Absent, Absent, Absent)

WeatherArgs == {NoArgs} \cup {[NoArgs EXCEPT !.city = JStr(x)] : x \in CityStrings}

OrderArgs == {NoArgs} \cup {[NoArgs EXCEPT !.order_id = JStr(x)] : x \in OrderStrings}

SearchArgs ==
    {NoArgs}
        \cup {[NoArgs EXCEPT !.query = JStr(q), !.max_results = m] :
                 q \in QueryStrings, m \in MaxResultsInts}
        \cup {[NoArgs EXCEPT !.query = JStr(q), !.max_results = m] :
                 q \in QuerySeeds \cup {<<>>}, m \in MaxResultsValues}
        \cup {[NoArgs EXCEPT !.max_results = m] : m \in MaxResultsCore}

\* Argument values of the wrong type.
NonStrings == {JInt(5)}

\* What "arguments" may hold besides an object.
NonObjects == {JNull, JList, JStr(<<"x">>)}

\* A few argument objects per tool, to nest in every shape.
KnownArgs ==
    [NoArgs EXCEPT !.city = JStr(<<"L", "o", "n", "d", "o", "n">>),
                   !.query = JStr(<<"u", "s", "b">>),
                   !.order_id = JStr(<<"o", "r", "d", "-", "1", "0", "0", "3">>)]

OtherArgs ==
    [NoArgs EXCEPT !.city = JStr(<<"t", "o", "k", "y", "o">>), !.query = JStr(NoMatch),
                   !.max_results = JStr(<<"4">>), !.order_id = JStr(Ord9999)]

CoreArgs ==
    {NoArgs, KnownArgs, OtherArgs}
        \cup {[NoArgs EXCEPT !.city = v, !.query = v, !.order_id = v] : v \in NonStrings}

\* Every object of at most d levels over CoreArgs: the last level's
\* "arguments" is absent or no object, every other level's is the next level.
RECURSIVE Shapes(_)
Shapes(d) ==
    LET leaves == {<<[a EXCEPT !.arguments = v]>> : a \in CoreArgs, v \in {Absent} \cup NonObjects}
    IN  IF d <= 1 THEN leaves
        ELSE Shapes(d - 1)
                 \cup {<<[a EXCEPT !.arguments = JDict]>> \o o : a \in CoreArgs, o \in Shapes(d - 1)}

\* The body {"arguments": A} of a tool-calling client.
Nest(A) == <<[NoArgs EXCEPT !.arguments = JDict]>> \o A

NotObjects == {InvalidJson, JsonValue(JNull), JsonValue(JList), JsonValue(JInt(1)),
               JsonValue(JStr(<<"x">>))}

Contexts(args) ==
    {JsonObject(<<a>>) : a \in args}
        \cup {JsonObject(Nest(<<a>>)) : a \in args}
        \cup {JsonObject(o) : o \in Shapes(MaxDepth)}
        \cup NotObjects

HelloContexts == NotObjects \cup {JsonObject(<<NoArgs>>)}

WeatherContexts == Contexts(WeatherArgs)

SearchContexts == Contexts(SearchArgs)

OrderContexts == Contexts(OrderArgs)

----------------------------------------------------------------------------
\* The process: the three module-level datasets, and one invocation at a
\* time from the host (tool, context) with what the handler returned.

VARIABLES _MOCK_WEATHER, _MOCK_PRODUCTS, _MOCK_ORDERS, pc, calls, tool, context, response

vars == <<_MOCK_WEATHER, _MOCK_PRODUCTS, _MOCK_ORDERS, pc, calls, tool, context, response>>

datasets == <<_MOCK_WEATHER, _MOCK_PRODUCTS, _MOCK_ORDERS>>

NoResponse == [kind |-> "none", exc |-> "", result |-> NoResult]

Init ==
    /\ _MOCK_WEATHER = MockWeather
    /\ _MOCK_PRODUCTS = MockProducts
    /\ _MOCK_ORDERS = MockOrders
    /\ pc = "idle"
    /\ calls = 0
    /\ tool = "none"
    /\ context = InvalidJson
    /\ response = NoResponse

Invoke(name, c, r) ==
    /\ pc' = "returned"
    /\ calls' = calls + 1
    /\ tool' = name
    /\ context' = c
    /\ response' = r

InvokeHelloMcp ==
    /\ pc = "idle"
    /\ calls < MaxCalls
    /\ \E c \in HelloContexts :
          Invoke("hello_mcp", c, hello_mcp(c))
    /\ UNCHANGED datasets

InvokeGetWeather ==
    /\ pc = "idle"
    /\ calls < MaxCalls
    /\ \E c \in WeatherContexts :
          Invoke("get_weather", c, get_weather(c, _MOCK_WEATHER))
    /\ UNCHANGED datasets

\* search_products truncating the catalog it searched in place.
InvokeSearchProductsInPlace ==
    /\ pc = "idle"
    /\ calls < MaxCalls
    /\ \E c \in SearchContexts :
          LET r == search_products(c, _MOCK_PRODUCTS)
          IN  /\ Invoke("search_products", c, r)
              /\ _MOCK_PRODUCTS' = IF r.kind = "ok" THEN r.result.products ELSE _MOCK_PRODUCTS
    /\ UNCHANGED <<_MOCK_WEATHER, _MOCK_ORDERS>>

InvokeSearchProducts ==
    /\ pc = "idle"
    /\ calls < MaxCalls
    /\ \E c \in SearchContexts :
          Invoke("search_products", c, search_products(c, _MOCK_PRODUCTS))
    /\ UNCHANGED datasets

InvokeGetOrderStatus ==
    /\ pc = "idle"
    /\ calls < MaxCalls
    /\ \E c \in OrderContexts :
          Invoke("get_order_status", c, get_order_status(c, _MOCK_ORDERS))
    /\ UNCHANGED datasets

\* The host takes the returned string; nothing of the invocation is kept.
Return ==
    /\ pc = "returned"
    /\ pc' = "idle"
    /\ tool' = "none"
    /\ UNCHANGED calls
    /\ context' = InvalidJson
    /\ response' = NoResponse
    /\ UNCHANGED datasets

Next ==
    \/ InvokeHelloMcp
    \/ InvokeGetWeather
    \/ InvokeSearchProducts
    \/ InvokeGetOrderStatus
    \/ Return

Spec == Init /\ [][Next]_vars

----------------------------------------------------------------------------
\* Vocabulary of the properties.

Tools == {"get_weather", "search_products", "get_order_status"}

Returned(name) == pc = "returned" /\ tool = name

Answered(name) == Returned(name) /\ response.kind = "ok"

SameResponse(a, b) ==
    /\ a.kind = b.kind
    /\ a.exc = b.exc
    /\ a.kind = "ok" => a.result = b.result

\* What handler name returns for context c in the current process.
Handle(name, c) ==
    CASE name = "get_weather" -> get_weather(c, _MOCK_WEATHER)
      [] name = "search_products" -> search_products(c, _MOCK_PRODUCTS)
      [] name = "get_order_status" -> get_order_status(c, _MOCK_ORDERS)
      [] OTHER -> hello_mcp(c)

\* What handler name returns for context c in a process just started.
FirstCall(name, c) ==
    CASE name = "get_weather" -> get_weather(c, MockWeather)
      [] name = "search_products" -> search_products(c, MockProducts)
      [] name = "get_order_status" -> get_order_status(c, MockOrders)
      [] OTHER -> hello_mcp(c)

\* What handler name answers from the fields of the object args.
FromArgs(name, args) ==
    CASE name = "get_weather" -> WeatherResult(args, _MOCK_WEATHER)
      [] name = "search_products" -> SearchResult(args, _MOCK_PRODUCTS)
      [] OTHER -> OrderResult(args, _MOCK_ORDERS)

\* The request carries an argument mapping, and its field key is a string
\* (or is left out, which stands for the empty string).
StringArg(key) ==
    /\ ArgsOf(context).kind = "ok"
    /\ PyGet(ArgsOf(context).result, key, JStr(<<>>)).t = "str"

ArgValue(key, default) == PyGet(ArgsOf(context).result, key, default)

\* The first n entries of s, none when n <= 0.
FirstN(s, n) == SubSeq(s, 1, IF n <= 0 THEN 0 ELSE IF n < Len(s) THEN n ELSE Len(s))

\* The catalog entries whose lower-cased name or category contains q.
MatchSet(q) ==
    SelectSeq(MockProducts,
              LAMBDA p : Contains(Lower(p.name), q) \/ Contains(Lower(p.category), q))

\* The limit of the current search request.
Limit == MaxResults(ArgsOf(context).result).result

----------------------------------------------------------------------------
\* The properties.

\* C1: search_products never returns more than 5 products, whatever the
\* query and the requested max_results.
C1_AtMostFiveProducts ==
    Answered("search_products") => Len(response.result.products) <= 5

\* C2 as stated: for every object A of arguments, also one that holds a key
\* "arguments" itself, each handler returns for {"arguments": A} what it
\* returns for A.
C2_ShapeInvariantForEveryObject ==
    (pc = "returned" /\ tool \in Tools /\ context.form = "object")
        => SameResponse(response, Handle(tool, JsonObject(Nest(context.obj))))

\* C2 as amended: for every object A of arguments that holds no key
\* "arguments", each handler returns for {"arguments": A} what it returns
\* for A.
C2_ShapeInvariant ==
    (pc = "returned" /\ tool \in Tools /\ context.form = "object"
        /\ context.obj[1].arguments.t = "absent")
        => SameResponse(response, Handle(tool, JsonObject(Nest(context.obj))))

\* C2 witness: get_weather answered the flat body {"city": "London"}.
C2_Witness ==
    /\ Answered("get_weather")
    /\ context = JsonObject(<<[NoArgs EXCEPT !.city = JStr(<<"L", "o", "n", "d", "o", "n">>)]>>)
    /\ response.result.temperature_c = 12

\* C3 as stated: the value under "arguments" is the argument mapping only
\* when it is an object; with the key absent or holding anything else the
\* handler answers from the fields of the top-level object.
C3_NestedOnlyWhenObject ==
    (pc = "returned" /\ tool \in Tools /\ context.form = "object")
        => LET a == context.obj[1].arguments
           IN  IF a.t = "dict"
               THEN SameResponse(response, FromArgs(tool, Tail(context.obj)))
               ELSE SameResponse(response, FromArgs(tool, context.obj))

\* C3 as amended: the value under "arguments" is the argument mapping
\* whenever the key is present: an object is answered from, anything else
\* makes the handler raise AttributeError; only with the key absent does the
\* handler answer from the fields of the top-level object.
C3_NestedWheneverPresent ==
    (pc = "returned" /\ tool \in Tools /\ context.form = "object")
        => LET a == context.obj[1].arguments
           IN  CASE a.t = "dict" -> SameResponse(response, FromArgs(tool, Tail(context.obj)))
                 [] a.t = "absent" -> SameResponse(response, FromArgs(tool, context.obj))
                 [] OTHER -> SameResponse(response, Raise("AttributeError"))

\* C3 witness: get_weather was sent a body with "city": "London" and
\* "arguments": null, and raised.
C3_Witness ==
    /\ Returned("get_weather")
    /\ context = JsonObject(<<[KnownArgs EXCEPT !.arguments = JNull]>>)
    /\ response.kind = "error"

\* C4: when no product matches the query, products is the first L catalog
\* entries for the effective limit L, and total_matches and returned are
\* both the length of that slice.
C4_PositionalFallback ==
    (Answered("search_products") /\ MatchSet(response.result.query) = <<>>)
        => /\ response.result.products = FirstN(MockProducts, Limit)
           /\ response.result.total_matches = Len(FirstN(MockProducts, Limit))
           /\ response.result.returned = Len(FirstN(MockProducts, Limit))

\* C5: the match set is the products whose lower-cased name or category
\* contains the trimmed, lower-cased query (all 10 for the empty query);
\* when it is not empty, total_matches is its size, returned is
\* min(total_matches, limit) and products is its first limit members.
C5_Matching ==
    (Answered("search_products") /\ StringArg("query"))
        => LET q == Lower(Strip(ArgValue("query", JStr(<<>>)).s))
               set == MatchSet(q)
           IN  /\ response.result.query = q
               /\ q = <<>> => Len(set) = 10
               /\ set # <<>> =>
                     /\ response.result.total_matches = Len(set)
                     /\ response.result.returned = PyMin(Len(set), Limit)
                     /\ response.result.products = FirstN(set, Limit)
                     /\ \A i \in 1..Len(response.result.products) :
                           \/ Contains(Lower(response.result.products[i].name), q)
                           \/ Contains(Lower(response.result.products[i].category), q)

\* max_results reads as the integer n: an int, or a string that is an
\* optionally signed run of digits between whitespace.
ReadsAsInteger(v) ==
    \/ v.t = "int"
    \/ /\ v.t = "str"
       /\ LET t == Strip(v.s)
              d == IF Len(t) > 0 /\ t[1] \in {"+", "-"} THEN Tail(t) ELSE t
          IN  Len(d) > 0 /\ \A i \in 1..Len(d) : d[i] \in Range(Digits)

\* C6: coercing max_results never raises: absent or not parseable as an
\* integer it is replaced by 3, and an integer or integer string n gives
\* min(n, 5).
C6_CoercionNeverRaises ==
    (Returned("search_products") /\ StringArg("query"))
        => LET v == ArgValue("max_results", Absent)
               m == MaxResults(ArgsOf(context).result)
           IN  /\ response.kind = "ok"
               /\ m.kind = "ok"
               /\ v.t = "int" => m.result = PyMin(v.n, 5)
               /\ (v.t = "str" /\ ReadsAsInteger(v)) => m.result = PyMin(IntOfStr(v.s).result, 5)
               /\ (v.t \in {"absent", "null", "list", "dict", "inf", "nan"}
                      \/ (v.t = "str" /\ ~ReadsAsInteger(v))) => m.result = 3

London == <<"l", "o", "n", "d", "o", "n">>

\* C7: for every city string, with c the trimmed, lower-cased input:
\* a dataset key gives that record, temperature_f = temperature_c * 9/5 + 32
\* to one decimal (london: 12 -> 53.6), the title-cased city and source
\* "mock data"; any other c gives the default record, the title-cased city or
\* "Unknown" for the empty c, and the not-in-database source; neither raises.
C7_WeatherLookup ==
    (Returned("get_weather") /\ StringArg("city"))
        => LET c == Lower(Strip(ArgValue("city", JStr(<<>>)).s))
               r == response.result
           IN  /\ response.kind = "ok"
               /\ Cardinality(DOMAIN MockWeather) = 8
               /\ c \in DOMAIN MockWeather =>
                     /\ r.temperature_c = MockWeather[c].temperature_c
                     /\ r.condition = MockWeather[c].condition
                     /\ r.humidity_pct = MockWeather[c].humidity_pct
                     /\ r.wind_kmh = MockWeather[c].wind_kmh
                     /\ r.temperature_f * 5 = r.temperature_c * 9 * 10 + 320 * 5
                     /\ r.city = Title(c)
                     /\ r.source = "mock data"
               /\ c = London =>
                     /\ r.temperature_c = 12 /\ r.temperature_f = 536
                     /\ r.condition = "Cloudy" /\ r.humidity_pct = 78 /\ r.wind_kmh = 18
               /\ c \notin DOMAIN MockWeather =>
                     /\ r.temperature_c = 20 /\ r.temperature_f = 680
                     /\ r.condition = "Clear" /\ r.humidity_pct = 60 /\ r.wind_kmh = 10
                     /\ r.city = (IF c = <<>> THEN Unknown ELSE Title(c))
                     /\ r.source = "mock data (city not in database - returning default)"

\* C7 witness: get_weather answered " LONDON" followed by a tab with 53.6.
C7_Witness ==
    /\ Answered("get_weather")
    /\ context = JsonObject(<<[NoArgs EXCEPT !.city = JStr(<<" ">> \o Upper(London) \o <<"\t">>)]>>)
    /\ response.result.temperature_f = 536

OrderFields == {"status", "placed", "estimated_delivery", "delivered", "carrier", "tracking"}

\* C8: for every order_id string, with k the trimmed, upper-cased input:
\* a dataset key gives that record's six fields (None kept), order_id = k
\* and source "mock data"; any other k gives order_id = k, status
\* "Not Found", a message naming k and ORD-1001 through ORD-1005, and source
\* "mock data".  The status is "Not Found" iff k is no dataset key; neither
\* raises.
C8_OrderLookup ==
    (Returned("get_order_status") /\ StringArg("order_id"))
        => LET k == Upper(Strip(ArgValue("order_id", JStr(<<>>)).s))
               r == response.result
           IN  /\ response.kind = "ok"
               /\ Cardinality(DOMAIN MockOrders) = 5
               /\ r.order_id = S(k)
               /\ r.source = S("mock data")
               /\ (r.status = S("Not Found")) <=> (k \notin DOMAIN MockOrders)
               /\ k \in DOMAIN MockOrders =>
                     /\ DOMAIN r = OrderFields \cup {"order_id", "source"}
                     /\ \A f \in OrderFields : r[f] = MockOrders[k][f]
               /\ k \notin DOMAIN MockOrders =>
                     /\ DOMAIN r = {"order_id", "status", "message", "source"}
                     /\ r.message[2] = k
                     /\ r.message[3] = "'. Valid examples: ORD-1001 through ORD-1005."

\* C8 witness: get_order_status answered "ord-1003" with Processing and no
\* delivery date.
C8_Witness ==
    /\ Answered("get_order_status")
    /\ context = JsonObject(<<[NoArgs EXCEPT !.order_id = JStr(<<"o", "r", "d", "-", "1", "0", "0", "3">>)]>>)
    /\ response.result.status = S("Processing")
    /\ response.result.delivered = None

\* C9: in every sequence of invocations the three datasets keep their
\* initial contents, and a handler returns for a context what it returns
\* for it in a process just started, whatever was invoked before.
C9_Stateless ==
    /\ _MOCK_WEATHER = MockWeather
    /\ _MOCK_PRODUCTS = MockProducts
    /\ _MOCK_ORDERS = MockOrders
    /\ pc = "returned" => SameResponse(response, FirstCall(tool, context))

\* C9 witness: a second invocation, a search that fell back to the head of
\* the catalog.
C9_Witness ==
    /\ Answered("search_products")
    /\ calls = 2
    /\ response.result.query = NoMatch
    /\ response.result.returned = 3

\* C10: in every search_products response returned is the number of
\* entries of products, and 0 <= returned <= total_matches.
C10_ReturnedCount ==
    Answered("search_products")
        => /\ response.result.returned = Len(response.result.products)
           /\ 0 <= response.result.returned
           /\ response.result.returned <= response.result.total_matches

====
